---- MODULE Spec2Model ----
(***************************************************************************)
(* The browser server of src/server.py as a state machine.  Every request  *)
(* handler is a coroutine on one asyncio event loop: the code between two  *)
(* awaits runs without interruption, so each action below is one such      *)
(* stretch.  The browser driver (get_current_page, evaluate, screenshot,   *)
(* navigate_to), the YOLO and SAM models, the clock and the screenshots    *)
(* directory are the environment the handlers act on.  The server commands *)
(* of src/cli.py (start, stop, the PID file) and the wait command of       *)
(* src/client.py are modelled beside it, each under a specification of     *)
(* its own.                                                                *)
(***************************************************************************)
EXTENDS Integers, Sequences, FiniteSets, TLC

\* ------------------------------------------------------------------ bounds
\* Requests handled in one run.
NumCalls == 2
\* Page states the browser goes through after the blank page 0: every
\* navigation or change of the document gives the next one.
NumPages == 1
\* Wall-clock seconds the run spans: time.time() is in 0..MaxTime.
MaxTime == 1
\* The viewport raster returned by page.screenshot().
ViewportW == 100
ViewportH == 80
\* Regions handed to the encoder on its own: coordinates in
\* -MaxCoord .. MaxCoord, sizes in 1 .. MaxCoord, labels of up to MaxLabel
\* characters.
MaxCoord == 3
MaxLabel == 2

\* Server processes the CLI launches in one run.
MaxProcs == 3

\* The wait command: time in quarters of a second; the --timeout option is
\* in -1 .. MaxTimeout, and one POST takes 0 .. MaxPollTime (httpx gives up
\* on a request after its own timeout).
MaxTimeout == 4
MaxPollTime == 2

Calls == 1 .. NumCalls
Pages == 0 .. NumPages
Grounding == {"visualize", "detect", "segment"}
Modes == Grounding \cup {"screenshot", "navigate"}

\* ------------------------------------------------------------- page content
\* The interactive elements document.querySelectorAll can return, in document
\* order, with the rectangle getBoundingClientRect reports (viewport
\* coordinates, so negative or beyond the viewport when scrolled away) and
\* whether offsetParent is non-null.  Text is a sequence of characters.
ElementPool ==
    << [text |-> <<"O", "K">>, x |-> 10, y |-> 20, w |-> 40, h |-> 20, offsetParent |-> TRUE],
       [text |-> <<"a", ",", "b">>, x |-> 50, y |-> 90, w |-> 31, h |-> 11, offsetParent |-> TRUE],
       [text |-> <<" ", "x", "\n">>, x |-> -60, y |-> 30, w |-> 41, h |-> 21, offsetParent |-> TRUE],
       [text |-> <<"h">>, x |-> 5, y |-> 5, w |-> 0, h |-> 10, offsetParent |-> FALSE] >>

PoolLen == Len(ElementPool)

\* The interactive elements of page p (page 0 is blank).
Dom(p) ==
    [i \in 1 .. (p % (PoolLen + 1)) |-> ElementPool[((p + i) % PoolLen) + 1]]

\* The script of /visualize: map each element to
\* {text, x, y, w, h, visible} and keep the visible ones.  coords tells what
\* the item's x, y, w, h are when they reach the handler: finite numbers.
ScanScript(p) ==
    LET visible(el) == el.w > 0 /\ el.h > 0 /\ el.offsetParent
        item(el) == [text |-> el.text, x |-> el.x, y |-> el.y, w |-> el.w, h |-> el.h,
                     coords |-> "finite"]
        all == Dom(p)
        kept == SelectSeq(all, visible)
    IN  [i \in 1 .. Len(kept) |-> item(kept[i])]

\* model.names of the YOLO model: class index -> label.
YoloNames == <<  <<"t", "v">>, <<"c", "a", "t">> >>

\* The k-th box YOLO finds on the frame of page p: corners, confidence in
\* percent, class index.
YoloBox(p, k) ==
    [x1 |-> 10 * k + p, y1 |-> 5 * k, x2 |-> 10 * k + p + 21, y2 |-> 5 * k + 30,
     conf |-> 90 - k, cls |-> (k % 2) + 1]

\* model(img) of YOLO on the frame of page p: a list of result objects, each
\* with its boxes.  Page 0 has no objects.
YoloResults(p) ==
    IF p = 0 THEN << <<>> >>
    ELSE IF p % 2 = 1 THEN << <<YoloBox(p, 1)>>, <<YoloBox(p, 2)>> >>
    ELSE << <<YoloBox(p, 1), YoloBox(p, 2), YoloBox(p, 3)>> >>

\* model(img) of SAM on the frame of page p: results[0] with its boxes.
SamResults(p) ==
    LET boxes == [k \in 1 .. (p % 3) |-> YoloBox(p, k)]
    IN  << [boxes |-> boxes] >>

\* len(results[0].masks) if results[0].masks else 0 (line 435): masks is an
\* attribute of the result object apart from boxes, None or a list of its
\* own length; the handler reads the two without comparing them.
MaskCounts(boxes) == 0 .. Len(boxes)

\* ------------------------------------------------------------------- state
VARIABLES
    browser,     \* global browser: "None" until lifespan startup, then "started"
    page,        \* the page state the browser shows
    now,         \* int(time.time())
    yolo_model,  \* global yolo_model: NoModel, or the n-th YOLO(...) constructed
    sam_model,   \* global sam_model: NoModel, or the n-th SAM(...) constructed
    files,       \* SCREENSHOTS_DIR: file name -> [complete]
    pc,          \* per request: the await its handler is suspended at
    mode,        \* per request in flight: the endpoint
    elements,    \* per /visualize request in flight: local `elements`
    filename,    \* per /screenshot request in flight: local `filename` (line 216)
    captured,    \* per request in flight: the page states its locals were read from
    last,        \* the request that ended last: what it sent, raised, wrote (history)
    loads,       \* model constructor runs: [yolo |-> n, sam |-> n] (history)
    probe,       \* the encoder applied on its own: a region, and the row it gave
    pid_file,    \* cli.py PID_FILE: whether it exists and the number its text holds
    procs,       \* the server processes the CLI launched, by pid: how and whether alive
    cli_out,     \* the CLI command that ran last: what it echoed and launched (history)
    waiter       \* client.py wait(): its position, locals and clock, its exit

vars == <<browser, page, now, yolo_model, sam_model, files, pc, mode, elements,
          filename, captured, last, loads, probe,
          pid_file, procs, cli_out, waiter>>

NoPath == <<>>
\* yolo_model = None, sam_model = None
NoModel == 0
\* Nothing captured yet: geom is the page state whose geometry the request
\* read, frame the page state its screenshot shows; usable is whether the
\* geometry answer was a list (or held one), wellformed whether every item
\* of the list had finite numbers for x, y, w and h.
NoCapture == [geom |-> -1, frame |-> -1, usable |-> TRUE, wellformed |-> TRUE]
NoLast ==
    [call |-> 0, mode |-> "none", sent |-> <<>>, captured |-> NoCapture,
     raised |-> "none", wrote |-> <<>>]

\* int(v / 2) of Python for an integer v: truncation toward zero.
TruncHalf(v) == IF v >= 0 THEN v \div 2 ELSE -((-v) \div 2)

\* File name f"{prefix}_{timestamp}.{ext}" under SCREENSHOTS_DIR.
FileName(prefix, timestamp, ext) == <<prefix, timestamp, ext>>

Put(fs, name, content) == (name :> content) @@ fs

\* raise HTTPException(status_code=code, detail=detail)
HttpError(code, detail) ==
    [success |-> FALSE, code |-> code, detail |-> detail, keys |-> {"detail"},
     path |-> NoPath, csv_path |-> NoPath, image_path |-> NoPath,
     count |-> 0, csv |-> <<>>]

\* return {"success": True, ...}: the keys of the dict and the values of those
\* the model follows.
Success(keys, path, csv_path, image_path, count, csv) ==
    [success |-> TRUE, code |-> 200, detail |-> "", keys |-> keys,
     path |-> path, csv_path |-> csv_path, image_path |-> image_path,
     count |-> count, csv |-> csv]

\* No region handed to the encoder.
NoProbe == [given |-> FALSE]

\* PID_FILE: absent; holding text int() raises ValueError on; holding a pid.
\* NoPid (None) stands for the number where the text has none.
NoPid == 0
AbsentFile == [exists |-> FALSE, number |-> NoPid]
UnreadableFile == [exists |-> TRUE, number |-> NoPid]
PidFile(pid) == [exists |-> TRUE, number |-> pid]

\* No CLI command has run; no wait command has been started.
NoCommand == [cmd |-> "none", echo |-> "none", launched |-> 0]
NoWaiter == [pc |-> "none"]

Init ==
    /\ browser = "None"
    /\ page = 0
    /\ now = 0
    /\ yolo_model = NoModel
    /\ sam_model = NoModel
    /\ files = <<>>
    /\ pc = [c \in Calls |-> "idle"]
    /\ mode = [c \in Calls |-> "none"]
    /\ elements = [c \in Calls |-> <<>>]
    /\ filename = [c \in Calls |-> NoPath]
    /\ captured = [c \in Calls |-> NoCapture]
    /\ last = NoLast
    /\ loads = [yolo |-> 0, sam |-> 0]
    /\ probe = NoProbe
    /\ pid_file = AbsentFile
    /\ procs = <<>>
    /\ cli_out = NoCommand
    /\ waiter = NoWaiter

\* lifespan(): browser = Browser(...); await browser.start()
Startup ==
    /\ browser = "None"
    /\ browser' = "started"
    /\ UNCHANGED <<page, now, yolo_model, sam_model, files, pc, mode, elements,
                   filename, captured, last, loads, probe,
                   pid_file, procs, cli_out, waiter>>

\* The wall clock reaches the next second.
Tick ==
    /\ now < MaxTime
    /\ now' = now + 1
    /\ UNCHANGED <<browser, page, yolo_model, sam_model, files, pc, mode, elements,
                   filename, captured, last, loads, probe,
                   pid_file, procs, cli_out, waiter>>

\* The browser runs headed (headless=False): the person at the window, or the
\* page's own scripts, put the next page state in front of the driver.
PageChanges ==
    /\ browser = "started"
    /\ page < NumPages
    /\ page' = page + 1
    /\ UNCHANGED <<browser, now, yolo_model, sam_model, files, pc, mode, elements,
                   filename, captured, last, loads, probe,
                   pid_file, procs, cli_out, waiter>>

\* Respond with the CSV write wrapped in its own try/except that only logs: a
\* failed CSV write no longer fails the call.
RespondDespiteCsvError(c, raisedAt, response, seen, wrote) ==
    /\ pc' = [pc EXCEPT ![c] = "done"]
    /\ mode' = [mode EXCEPT ![c] = "none"]
    /\ elements' = [elements EXCEPT ![c] = <<>>]
    /\ filename' = [filename EXCEPT ![c] = NoPath]
    /\ captured' = [captured EXCEPT ![c] = NoCapture]
    /\ last' = [call |-> c, mode |-> mode[c],
                sent |-> << IF raisedAt \in {"none", "csv_write"} THEN response
                            ELSE HttpError(500, raisedAt) >>,
                captured |-> seen, raised |-> raisedAt, wrote |-> wrote]

\* The handler of request c ends: it returns `response`, or, when a step
\* raised, the except clause logs and raises HTTPException(500, str(e)).  Its
\* locals are gone; `seen` and `wrote` record what they held and what it wrote.
Respond(c, raisedAt, response, seen, wrote) ==
    /\ pc' = [pc EXCEPT ![c] = "done"]
    /\ mode' = [mode EXCEPT ![c] = "none"]
    /\ elements' = [elements EXCEPT ![c] = <<>>]
    /\ filename' = [filename EXCEPT ![c] = NoPath]
    /\ captured' = [captured EXCEPT ![c] = NoCapture]
    /\ last' = [call |-> c, mode |-> mode[c],
                sent |-> << IF raisedAt = "none" THEN response
                            ELSE HttpError(500, raisedAt) >>,
                captured |-> seen, raised |-> raisedAt, wrote |-> wrote]

\* A step before any write raised.
Fail(c, stage) == Respond(c, stage, HttpError(500, stage), captured[c], <<>>)

\* Arrive without the `if not browser` test.
ArriveUnchecked(c, m) ==
    /\ pc[c] = "idle"
    /\ \A d \in Calls : d < c => pc[d] # "idle"
    /\ pc' = [pc EXCEPT ![c] = IF m = "navigate" THEN "await_navigate" ELSE "await_page"]
    /\ mode' = [mode EXCEPT ![c] = m]
    /\ last' = last
    /\ UNCHANGED <<browser, page, now, yolo_model, sam_model, files, elements,
                   filename, captured, loads, probe,
                   pid_file, procs, cli_out, waiter>>

\* A request arrives at endpoint m: the handler runs up to its first await,
\* or raises 503 when the browser is not initialized.  Requests are numbered
\* in the order they arrive.
Arrive(c, m) ==
    /\ pc[c] = "idle"
    /\ \A d \in Calls : d < c => pc[d] # "idle"
    /\ IF browser = "None"
       THEN /\ pc' = [pc EXCEPT ![c] = "done"]
            /\ last' = [NoLast EXCEPT !.call = c, !.mode = m,
                           !.sent = <<HttpError(503, "Browser not initialized")>>]
            /\ mode' = mode
       ELSE /\ pc' = [pc EXCEPT ![c] = IF m = "navigate" THEN "await_navigate" ELSE "await_page"]
            /\ mode' = [mode EXCEPT ![c] = m]
            /\ last' = last
    /\ UNCHANGED <<browser, page, now, yolo_model, sam_model, files, elements,
                   filename, captured, loads, probe,
                   pid_file, procs, cli_out, waiter>>

\* /navigate: await browser.navigate_to(request.url) returns or raises.
Navigate(c) ==
    /\ pc[c] = "await_navigate"
    /\ \E ok \in BOOLEAN :
          /\ ok => page < NumPages
          /\ IF ok
             THEN /\ page' = page + 1
                  /\ Respond(c, "none", Success({"success", "url"}, NoPath, NoPath, NoPath, 0, <<>>),
                             captured[c], <<>>)
             ELSE /\ page' = page
                  /\ Fail(c, "navigate_to")
    /\ UNCHANGED <<browser, now, yolo_model, sam_model, files, loads, probe,
                   pid_file, procs, cli_out, waiter>>

\* await browser.get_current_page() returns or raises.  /screenshot then
\* computes its file name (line 216) before awaiting page.screenshot().
GetPage(c) ==
    /\ pc[c] = "await_page"
    /\ \E ok \in BOOLEAN :
          IF ok
          THEN /\ pc' = [pc EXCEPT ![c] =
                     IF mode[c] = "visualize" THEN "await_evaluate" ELSE "await_screenshot"]
               /\ filename' = [filename EXCEPT ![c] =
                     IF mode[c] = "screenshot" THEN FileName("screenshot", now, "png") ELSE @]
               /\ UNCHANGED <<mode, elements, captured, last>>
          ELSE Fail(c, "get_current_page")
    /\ UNCHANGED <<browser, page, now, yolo_model, sam_model, files, loads, probe,
                   pid_file, procs, cli_out, waiter>>

\* What page.evaluate(script) can hand back for the scan of page p: the list,
\* a JSON string of it, a string that is no JSON, a dict holding it under
\* 'result', or some other value.
EvaluateKinds == {"list", "json", "badjson", "dict", "other"}

\* Lines 259-272: normalise the evaluate response to the list `elements`.
NormaliseElements(kind, scanned) ==
    LET value(v) == [islist |-> TRUE, val |-> v]
        parsed ==
            IF kind = "json" THEN value(scanned)            \* json.loads(response)
            ELSE IF kind = "badjson" THEN value(<<>>)       \* except: elements = []
            ELSE IF kind = "dict" THEN value(scanned)       \* response['result']
            ELSE IF kind = "list" THEN value(scanned)
            ELSE [islist |-> FALSE, val |-> <<>>]
    IN  IF ~parsed.islist THEN <<>> ELSE parsed.val

\* What x, y, w, h of an item can be when the answer did not carry the
\* numbers of the script: absent (a missing key, or null), or present but no
\* finite number (a string; NaN or Infinity in the JSON text).
CoordKinds == {"absent", "nonfinite"}

\* The list with the coordinates of its first item of that kind.
WithCoords(els, kind) == [els EXCEPT ![1].coords = kind]

Malformed(els) == \E i \in DOMAIN els : els[i].coords # "finite"

\* The answers one await page.evaluate(script) can give on page state p, as
\* the handler sees them: raised, or the normalised list and whether the
\* answer held a list.
EvaluateOutcomes(p) ==
    {[raised |-> TRUE, elements |-> <<>>, usable |-> TRUE]}
    \cup {[raised |-> FALSE,
           elements |-> NormaliseElements(kind, ScanScript(p)),
           usable |-> kind \in {"list", "json", "dict"}] : kind \in EvaluateKinds}

\* The answers that hold the list of page state p with an item whose
\* coordinates are not the numbers of the script.
MalformedOutcomes(p) ==
    {[raised |-> FALSE,
      elements |-> NormaliseElements("json", WithCoords(ScanScript(p), kind)),
      usable |-> TRUE] : kind \in IF ScanScript(p) = <<>> THEN {} ELSE CoordKinds}

\* /visualize: await page.evaluate(script) returns or raises.
Evaluate(c) ==
    /\ pc[c] = "await_evaluate"
    /\ \E o \in EvaluateOutcomes(page) :
          IF o.raised
          THEN Fail(c, "evaluate")
          ELSE /\ elements' = [elements EXCEPT ![c] = o.elements]
               /\ captured' = [captured EXCEPT ![c] =
                     [@ EXCEPT !.geom = page, !.usable = o.usable,
                               !.wellformed = ~Malformed(o.elements)]]
               /\ pc' = [pc EXCEPT ![c] = "await_screenshot"]
               /\ UNCHANGED <<mode, filename, last>>
    /\ UNCHANGED <<browser, page, now, yolo_model, sam_model, files, loads, probe,
                   pid_file, procs, cli_out, waiter>>

\* /visualize: await page.evaluate(script) returns a list with an item whose
\* coordinates are absent or no finite numbers.
EvaluateMalformed(c) ==
    /\ pc[c] = "await_evaluate"
    /\ \E o \in MalformedOutcomes(page) :
          /\ elements' = [elements EXCEPT ![c] = o.elements]
          /\ captured' = [captured EXCEPT ![c] =
                [@ EXCEPT !.geom = page, !.usable = o.usable,
                          !.wellformed = ~Malformed(o.elements)]]
          /\ pc' = [pc EXCEPT ![c] = "await_screenshot"]
          /\ UNCHANGED <<mode, filename, last>>
    /\ UNCHANGED <<browser, page, now, yolo_model, sam_model, files, loads, probe,
                   pid_file, procs, cli_out, waiter>>

\* ------------------------------------------------- annotate and encode
\* int(x + w / 2) of /visualize, for integer x and w.
CenterOfRect(x, w) == TruncHalf(2 * x + w)

\* (x1 + x2) // 2: the floor, which differs from int() below zero.
CenterOfCornersFloor(x1, x2) == (x1 + x2) \div 2

\* int((x1 + x2) / 2) of /detect and /segment.
CenterOfCorners(x1, x2) == TruncHalf(x1 + x2)

Whitespace == {" ", "\n", "\t"}

RECURSIVE LStrip(_)
LStrip(t) == IF t # <<>> /\ Head(t) \in Whitespace THEN LStrip(Tail(t)) ELSE t

RECURSIVE RStrip(_)
RStrip(t) ==
    IF t # <<>> /\ t[Len(t)] \in Whitespace THEN RStrip(SubSeq(t, 1, Len(t) - 1)) ELSE t

\* text.replace(",", " ").replace("\n", " ").strip()
Sanitize(text) ==
    LET replaced == [i \in 1 .. Len(text) |->
                        IF text[i] = "," \/ text[i] = "\n" THEN " " ELSE text[i]]
    IN  RStrip(LStrip(replaced))

\* What draw.text writes: the id f"{i}" (/visualize) or the label and
\* confidence f"{label} {conf:.2f}" (/detect, and results[0].plot of /segment).
IdText(i) == [kind |-> "id", id |-> i, label |-> <<>>, conf |-> 0]
LabelText(label, conf) == [kind |-> "label", id |-> -1, label |-> label, conf |-> conf]

\* Lines 289-294: a rectangle and a text per element, in list order.
VisualizeMarks(els) ==
    [i \in 1 .. Len(els) |->
        [box |-> <<els[i].x, els[i].y, els[i].x + els[i].w, els[i].y + els[i].h>>,
         at |-> <<els[i].x, els[i].y - 10>>,
         text |-> IdText(i - 1)]]

\* The rows numbered on from the files the earlier calls left, in place of
\* enumerate(elements).
VisualizeCsvNumberedOn(els) ==
    [i \in 1 .. Len(els) |->
        [cx |-> CenterOfRect(els[i].x, els[i].w),
         cy |-> CenterOfRect(els[i].y, els[i].h),
         id |-> i - 1 + Cardinality(DOMAIN files),
         label |-> Sanitize(els[i].text)]]

\* Lines 303-310: the rows f"{cx},{cy},{i},{text}" for enumerate(elements).
VisualizeCsv(els) ==
    [i \in 1 .. Len(els) |->
        [cx |-> CenterOfRect(els[i].x, els[i].w),
         cy |-> CenterOfRect(els[i].y, els[i].h),
         id |-> i - 1,
         label |-> Sanitize(els[i].text)]]

\* Detections that reads results[0] only, as /segment does.
DetectionsOfFirstResult(results) ==
    IF results = <<>> THEN <<>>
    ELSE LET boxes == Head(results)
         IN  [k \in 1 .. Len(boxes) |->
                 [x1 |-> boxes[k].x1, y1 |-> boxes[k].y1, x2 |-> boxes[k].x2,
                  y2 |-> boxes[k].y2, conf |-> boxes[k].conf,
                  label |-> YoloNames[boxes[k].cls]]]

\* Lines 347-357: one detection per box of every result object, in order.
RECURSIVE Detections(_)
Detections(results) ==
    IF results = <<>> THEN <<>>
    ELSE LET boxes == Head(results)
         IN  [k \in 1 .. Len(boxes) |->
                 [x1 |-> boxes[k].x1, y1 |-> boxes[k].y1, x2 |-> boxes[k].x2,
                  y2 |-> boxes[k].y2, conf |-> boxes[k].conf,
                  label |-> YoloNames[boxes[k].cls]]]
             \o Detections(Tail(results))

\* Lines 363-364: a rectangle and the text "label conf" per detection.
DetectMarks(dets) ==
    [i \in 1 .. Len(dets) |->
        [box |-> <<dets[i].x1, dets[i].y1, dets[i].x2, dets[i].y2>>,
         at |-> <<dets[i].x1, dets[i].y1 - 10>>,
         text |-> LabelText(dets[i].label, dets[i].conf)]]

\* Lines 366-368: the rows f"{cx},{cy},{i},{d['label']}" for enumerate(detections).
DetectCsv(dets) ==
    [i \in 1 .. Len(dets) |->
        [cx |-> CenterOfCorners(dets[i].x1, dets[i].x2),
         cy |-> CenterOfCorners(dets[i].y1, dets[i].y2),
         id |-> i - 1,
         label |-> dets[i].label]]

\* results[0].plot(labels=True, boxes=True, conf=True): the boxes with the
\* class label and confidence of the model.
SegmentMarks(boxes) ==
    [i \in 1 .. Len(boxes) |->
        [box |-> <<boxes[i].x1, boxes[i].y1, boxes[i].x2, boxes[i].y2>>,
         at |-> <<boxes[i].x1, boxes[i].y1>>,
         text |-> LabelText(YoloNames[boxes[i].cls], boxes[i].conf)]]

\* Lines 424-430: the rows f"{cx},{cy},{i},segment" for enumerate(results[0].boxes).
SegmentCsv(boxes) ==
    [i \in 1 .. Len(boxes) |->
        [cx |-> CenterOfCorners(boxes[i].x1, boxes[i].x2),
         cy |-> CenterOfCorners(boxes[i].y1, boxes[i].y2),
         id |-> i - 1,
         label |-> <<"s", "e", "g", "m", "e", "n", "t">>]]

\* ----------------------------------------------- the stretch after the screenshot
\* /visualize writing each row to the CSV file as it is encoded.
VisualizeStagesRowByRow == <<"decode", "draw", "save", "csv_write", "encode">>

\* The steps that can raise, in the order the handler runs them.
VisualizeStages == <<"decode", "draw", "save", "encode", "csv_write">>
DetectStages == <<"decode", "load", "infer", "read", "draw", "save">>
SegmentStages == <<"decode", "load", "infer", "plot", "save", "read">>

StageIndex(stages, s) == CHOOSE i \in 1 .. Len(stages) : stages[i] = s

\* The handler got past stage s: nothing raised, or a later stage did.
Past(stages, failAt, s) ==
    failAt = "none" \/ StageIndex(stages, failAt) > StageIndex(stages, s)

Outcomes(stages) == {"none"} \cup {stages[i] : i \in 1 .. Len(stages)}

\* A file the writer did not finish: it holds no usable content.
Truncated(content) ==
    [content EXCEPT !.complete = FALSE, !.frame = -1, !.marks = <<>>, !.rows = <<>>]

\* A write (img.save, open(..., "w") + f.write) at `stage`: done when the
\* handler got past it; when the write itself raised, nothing or a truncated
\* file is left.  `out` maps the names written to their content.
WriteStep(out, stages, failAt, stage, partial, name, content) ==
    IF Past(stages, failAt, stage) THEN Put(out, name, content)
    ELSE IF failAt = stage /\ partial THEN Put(out, name, Truncated(content))
    ELSE out

\* The directory after the handler wrote `out`: a name holds what was written
\* to it last.
Store(fs, out) ==
    [n \in DOMAIN fs \cup DOMAIN out |->
        IF n \in DOMAIN out THEN [complete |-> out[n].complete] ELSE fs[n]]

ImageFile(frame, marks) ==
    [complete |-> TRUE, frame |-> frame, marks |-> marks, rows |-> <<>>]

CsvFile(rows) ==
    [complete |-> TRUE, frame |-> -1, marks |-> <<>>, rows |-> rows]

\* What await page.screenshot() can hand back: bytes, a base64 string, or it raises.
ShotKinds == {"bytes", "str", "raise"}

\* The ways a stretch with the steps `stages` and the writing steps `writes`
\* can go: the screenshot raised, or it came as bytes or as a string and then
\* nothing or one step raised, a writing step leaving a truncated file or not.
Runs(stages, writes) ==
    {[shot |-> "raise", failAt |-> "none", partial |-> FALSE]}
    \cup {r \in [shot : ShotKinds \ {"raise"}, failAt : Outcomes(stages), partial : BOOLEAN] :
             r.partial => r.failAt \in writes}

\* What a handler's last stretch leaves: the step that raised, the response
\* it would return, what its locals were read from, the files it wrote.
Outcome(raisedAt, response, seen, out) ==
    [raised |-> raisedAt, response |-> response, seen |-> seen, out |-> out]

\* /screenshot, lines 220-229, with local filename `filepath`, on page state p.
ScreenshotOutcomes(filepath, seen, p) ==
    LET stages == <<"save">>
        response == Success({"success", "path"}, filepath, NoPath, NoPath, 0, <<>>)
        run(r) ==
            IF r.shot = "raise" THEN Outcome("screenshot", response, seen, <<>>)
            ELSE IF r.shot # "bytes"
            THEN Outcome("none", response, [seen EXCEPT !.frame = p], <<>>)
            ELSE Outcome(r.failAt, response, [seen EXCEPT !.frame = p],
                         WriteStep(<<>>, stages, r.failAt, "save", r.partial,
                                   filepath, ImageFile(p, <<>>)))
    IN  {run(r) : r \in {q \in Runs(stages, {"save"}) : q.failAt = "save" => q.shot = "bytes"}}

ScreenshotFinish(c) ==
    /\ pc[c] = "await_screenshot"
    /\ mode[c] = "screenshot"
    /\ \E o \in ScreenshotOutcomes(filename[c], captured[c], page) :
          /\ files' = Store(files, o.out)
          /\ Respond(c, o.raised, o.response, o.seen, o.out)
    /\ UNCHANGED <<browser, page, now, yolo_model, sam_model, loads, probe,
                   pid_file, procs, cli_out, waiter>>

\* A concurrent /visualize request's list read in place of the handler's own.
ElementsOfOther(c) ==
    LET others == {d \in Calls : d # c /\ mode[d] = "visualize" /\ elements[d] # elements[c]}
    IN  IF others = {} THEN elements[c] ELSE elements[CHOOSE d \in others : TRUE]

\* The handler's local `elements`, as the stretch after the screenshot reads it.
LocalElements(c) == elements[c]

\* /visualize, lines 274-326, with local `elements` els, on page state p at
\* second t.
VisualizeOutcomes(els, seen, p, t) ==
    LET stages == VisualizeStages
        timestamp == t
        filepath == FileName("visualized", timestamp, "png")
        csv_filepath == FileName("visualized", timestamp, "csv")
        csv_data == VisualizeCsv(els)
        response == Success({"success", "path", "csv_path", "elements_count", "csv"},
                            filepath, csv_filepath, NoPath, Len(els), csv_data)
        run(r) ==
            IF r.shot = "raise" THEN Outcome("screenshot", response, seen, <<>>)
            ELSE LET saved == WriteStep(<<>>, stages, r.failAt, "save", r.partial,
                                        filepath, ImageFile(p, VisualizeMarks(els)))
                     out == WriteStep(saved, stages, r.failAt, "csv_write", r.partial,
                                      csv_filepath, CsvFile(csv_data))
                 IN  Outcome(r.failAt, response, [seen EXCEPT !.frame = p], out)
        \* el['x'] of an item without one, or None + None, raises in the draw
        \* loop (line 291); el['w'] / 2 of a string and int() of a non-finite
        \* float raise in the encode loop (lines 306-307) when nothing before
        \* them did.
        mustRaiseBy(kind) ==
            IF kind = "absent" THEN {"decode", "draw"}
            ELSE {"decode", "draw", "save", "encode"}
    IN  {run(r) : r \in {q \in Runs(stages, {"save", "csv_write"}) :
                            /\ q.failAt = "encode" => els # <<>>
                            /\ \A i \in DOMAIN els :
                                   (els[i].coords # "finite" /\ q.shot # "raise") =>
                                       q.failAt \in mustRaiseBy(els[i].coords)}}

VisualizeFinish(c) ==
    /\ pc[c] = "await_screenshot"
    /\ mode[c] = "visualize"
    /\ \E o \in VisualizeOutcomes(LocalElements(c), captured[c], page, now) :
          /\ files' = Store(files, o.out)
          /\ Respond(c, o.raised, o.response, o.seen, o.out)
    /\ UNCHANGED <<browser, page, now, yolo_model, sam_model, loads, probe,
                   pid_file, procs, cli_out, waiter>>

\* get_yolo() / get_sam() without the `is None` test: every call constructs.
GetModelUncached(cached, constructed, raises) ==
    IF raises THEN [model |-> cached, constructed |-> constructed]
    ELSE [model |-> constructed + 1, constructed |-> constructed + 1]

\* The global bound to a placeholder before the constructor runs, so that a
\* constructor that raises leaves it set.
GetModelPlaceholderFirst(cached, constructed, raises) ==
    IF cached # NoModel THEN [model |-> cached, constructed |-> constructed]
    ELSE IF raises THEN [model |-> -1, constructed |-> constructed]
    ELSE [model |-> constructed + 1, constructed |-> constructed + 1]

\* get_yolo() / get_sam(): construct the model when the global is None and
\* nothing raises; return the global.
GetModel(cached, constructed, raises) ==
    IF cached # NoModel THEN [model |-> cached, constructed |-> constructed]
    ELSE IF raises THEN [model |-> NoModel, constructed |-> constructed]
    ELSE [model |-> constructed + 1, constructed |-> constructed + 1]

\* The except clause resetting the global to None when the stretch raised.
ModelAfterResetOnError(stages, failAt, shot, cached, constructed) ==
    IF shot # "raise" /\ Past(stages, failAt, "decode")
    THEN LET got == GetModel(cached, constructed, failAt = "load")
         IN  IF failAt = "none" THEN got ELSE [got EXCEPT !.model = NoModel]
    ELSE [model |-> cached, constructed |-> constructed]

\* The model global after a stretch that raised at failAt (or nowhere).
ModelAfter(stages, failAt, shot, cached, constructed) ==
    IF shot # "raise" /\ Past(stages, failAt, "decode")
    THEN GetModel(cached, constructed, failAt = "load")
    ELSE [model |-> cached, constructed |-> constructed]

\* /detect, lines 336-384, on page state p at second t, with the global
\* yolo_model `cached`.
DetectOutcomes(seen, p, t, cached, constructed) ==
    LET stages == DetectStages
        results == YoloResults(p)
        detections == Detections(results)
        csv_data == DetectCsv(detections)
        timestamp == t
        filepath == FileName("detected", timestamp, "png")
        response == Success({"success", "detections", "image_path", "csv"},
                            NoPath, NoPath, filepath, Len(detections), csv_data)
        run(r) ==
            [got |-> ModelAfter(stages, r.failAt, r.shot, cached, constructed),
             end |-> IF r.shot = "raise" THEN Outcome("screenshot", response, seen, <<>>)
                     ELSE Outcome(r.failAt, response, [seen EXCEPT !.frame = p, !.geom = p],
                                  WriteStep(<<>>, stages, r.failAt, "save", r.partial,
                                            filepath, ImageFile(p, DetectMarks(detections))))]
    IN  {run(r) : r \in {q \in Runs(stages, {"save"}) :
                            /\ q.failAt = "load" => cached = NoModel
                            /\ q.failAt = "read" => detections # <<>>}}

DetectFinish(c) ==
    /\ pc[c] = "await_screenshot"
    /\ mode[c] = "detect"
    /\ \E o \in DetectOutcomes(captured[c], page, now, yolo_model, loads.yolo) :
          /\ yolo_model' = o.got.model
          /\ loads' = [loads EXCEPT !.yolo = o.got.constructed]
          /\ files' = Store(files, o.end.out)
          /\ Respond(c, o.end.raised, o.end.response, o.end.seen, o.end.out)
    /\ UNCHANGED <<browser, page, now, sam_model, probe,
                   pid_file, procs, cli_out, waiter>>

\* /segment, lines 394-440, on page state p at second t, with the global
\* sam_model `cached`.
SegmentOutcomes(seen, p, t, cached, constructed) ==
    LET stages == SegmentStages
        results == SamResults(p)
        timestamp == t
        filepath == FileName("segmented", timestamp, "png")
        csv_data == SegmentCsv(results[1].boxes)
        response(masks) == Success({"success", "image_path", "segments_count", "csv"},
                                   NoPath, NoPath, filepath, masks, csv_data)
        run(r, masks) ==
            [got |-> ModelAfter(stages, r.failAt, r.shot, cached, constructed),
             end |-> IF r.shot = "raise"
                     THEN Outcome("screenshot", response(masks), seen, <<>>)
                     ELSE Outcome(r.failAt, response(masks),
                                  [seen EXCEPT !.frame = p, !.geom = p],
                                  WriteStep(<<>>, stages, r.failAt, "save", r.partial,
                                            filepath,
                                            ImageFile(p, SegmentMarks(results[1].boxes))))]
    IN  {run(r, masks) :
            r \in {q \in Runs(stages, {"save"}) :
                      /\ q.failAt = "load" => cached = NoModel
                      /\ q.failAt = "read" => results[1].boxes # <<>>},
            masks \in MaskCounts(results[1].boxes)}

SegmentFinish(c) ==
    /\ pc[c] = "await_screenshot"
    /\ mode[c] = "segment"
    /\ \E o \in SegmentOutcomes(captured[c], page, now, sam_model, loads.sam) :
          /\ sam_model' = o.got.model
          /\ loads' = [loads EXCEPT !.sam = o.got.constructed]
          /\ files' = Store(files, o.end.out)
          /\ Respond(c, o.end.raised, o.end.response, o.end.seen, o.end.out)
    /\ UNCHANGED <<browser, page, now, yolo_model, probe,
                   pid_file, procs, cli_out, waiter>>

\* ------------------------------------- the event loop during inference
\* The stretch of /detect and /segment after the screenshot, shown with the
\* time it takes: the handler is resumed, runs get_yolo() / get_sam() and
\* model(img) as plain calls inside the coroutine, and only then returns to
\* the event loop.  While it does, the loop runs no other handler.
LoopBusy == \E c \in Calls : pc[c] = "inferring"

\* The endpoints followed here: root has no await, /status has three.
Served == {"detect", "segment", "status", "root"}

\* A client's request reaches the listening socket.  Requests are numbered
\* in the order they arrive.
Receive(c, m) ==
    /\ pc[c] = "idle"
    /\ \A d \in Calls : d < c => pc[d] # "idle"
    /\ pc' = [pc EXCEPT ![c] = "received"]
    /\ mode' = [mode EXCEPT ![c] = m]
    /\ UNCHANGED <<browser, page, now, yolo_model, sam_model, files, elements,
                   filename, captured, last, loads, probe,
                   pid_file, procs, cli_out, waiter>>

\* The event loop starts the handler of a received request, which runs up to
\* its first await: root returns, the others raise 503 when the browser is
\* not initialized and else await browser.get_current_page().
Dispatch(c) ==
    /\ ~LoopBusy
    /\ pc[c] = "received"
    /\ IF mode[c] = "root"
       THEN Respond(c, "none", Success({"status", "service"}, NoPath, NoPath, NoPath, 0, <<>>),
                    captured[c], <<>>)
       ELSE IF browser = "None"
       THEN /\ pc' = [pc EXCEPT ![c] = "done"]
            /\ mode' = [mode EXCEPT ![c] = "none"]
            /\ last' = [NoLast EXCEPT !.call = c, !.mode = mode[c],
                           !.sent = <<HttpError(503, "Browser not initialized")>>]
            /\ UNCHANGED <<elements, filename, captured>>
       ELSE /\ pc' = [pc EXCEPT ![c] = "await_page"]
            /\ UNCHANGED <<mode, elements, filename, captured, last>>
    /\ UNCHANGED <<browser, page, now, yolo_model, sam_model, files, loads, probe,
                   pid_file, procs, cli_out, waiter>>

\* /status, lines 111-132: get_current_page, get_current_page_url and
\* get_current_page_title are awaited in turn; when one raises the handler
\* returns {"ready": False, "error": ...}.
StatusStep(c) ==
    /\ ~LoopBusy
    /\ mode[c] = "status"
    /\ pc[c] \in {"await_page", "await_url", "await_title"}
    /\ \E ok \in BOOLEAN :
          IF ~ok
          THEN Respond(c, "none", Success({"ready", "error"}, NoPath, NoPath, NoPath, 0, <<>>),
                       captured[c], <<>>)
          ELSE IF pc[c] = "await_title"
          THEN Respond(c, "none", Success({"url", "title", "ready"}, NoPath, NoPath, NoPath, 0, <<>>),
                       captured[c], <<>>)
          ELSE /\ pc' = [pc EXCEPT ![c] = IF pc[c] = "await_page" THEN "await_url"
                                          ELSE "await_title"]
               /\ UNCHANGED <<mode, elements, filename, captured, last>>
    /\ UNCHANGED <<browser, page, now, yolo_model, sam_model, files, loads, probe,
                   pid_file, procs, cli_out, waiter>>

\* /detect, /segment: await browser.get_current_page() returns or raises.
PageOfInference(c) ==
    /\ ~LoopBusy
    /\ mode[c] \in {"detect", "segment"}
    /\ GetPage(c)

\* /detect, /segment: await page.screenshot() raises, or returns and the
\* handler is resumed: Image.open raises, or the handler goes on into
\* get_yolo() / get_sam() and model(img).
Infer(c) ==
    /\ ~LoopBusy
    /\ pc[c] = "await_screenshot"
    /\ mode[c] \in {"detect", "segment"}
    /\ \E shot \in ShotKinds, decoded \in BOOLEAN :
          LET seen == [captured[c] EXCEPT !.frame = page, !.geom = page]
          IN  IF shot = "raise" THEN Fail(c, "screenshot")
              ELSE IF ~decoded THEN Respond(c, "decode", HttpError(500, "decode"), seen, <<>>)
              ELSE /\ pc' = [pc EXCEPT ![c] = "inferring"]
                   /\ captured' = [captured EXCEPT ![c] = seen]
                   /\ UNCHANGED <<mode, elements, filename, last>>
    /\ UNCHANGED <<browser, page, now, yolo_model, sam_model, files, loads, probe,
                   pid_file, procs, cli_out, waiter>>

\* The rest of the stretch: model load, inference and everything after it,
\* on the frame captured, up to the return or the except clause.
FinishInference(c) ==
    /\ pc[c] = "inferring"
    /\ LET reached(q) == q.end.raised \notin {"screenshot", "decode"}
           frame == captured[c].frame
       IN  IF mode[c] = "detect"
           THEN \E o \in {q \in DetectOutcomes(captured[c], frame, now, yolo_model, loads.yolo) :
                              reached(q)} :
                   /\ yolo_model' = o.got.model
                   /\ loads' = [loads EXCEPT !.yolo = o.got.constructed]
                   /\ files' = Store(files, o.end.out)
                   /\ Respond(c, o.end.raised, o.end.response, o.end.seen, o.end.out)
                   /\ sam_model' = sam_model
           ELSE \E o \in {q \in SegmentOutcomes(captured[c], frame, now, sam_model, loads.sam) :
                              reached(q)} :
                   /\ sam_model' = o.got.model
                   /\ loads' = [loads EXCEPT !.sam = o.got.constructed]
                   /\ files' = Store(files, o.end.out)
                   /\ Respond(c, o.end.raised, o.end.response, o.end.seen, o.end.out)
                   /\ yolo_model' = yolo_model
    /\ UNCHANGED <<browser, page, now, probe,
                   pid_file, procs, cli_out, waiter>>

\* The handler of a request to / or /status takes its next step.
ServeStep(s) == Dispatch(s) \/ StatusStep(s)

\* ------------------------------------------------- the other endpoints
\* The endpoints besides /navigate, /screenshot and the grounding ones that
\* use the driver.  /fill and /dom call execute(), whose test of `browser`
\* (line 186) is theirs; /click tests it itself (line 164) and then calls
\* execute().
Control == {"status", "click_at", "click", "execute", "fill", "dom"}
Endpoints == Modes \cup Control

\* The awaits of a handler, in order: /click_at awaits get_current_page,
\* page.mouse and mouse.click; /execute and the endpoints built on it await
\* get_current_page and page.evaluate.
Awaits(m) ==
    IF m = "click_at" THEN <<"await_page", "await_mouse", "await_click">>
    ELSE <<"await_page", "await_execute">>

\* /click_at, /click, /execute, /fill, /dom: the awaited driver call returns
\* or raises; a click or a script can put the next page state in the browser.
ControlStep(c) ==
    /\ mode[c] \in Control \ {"status"}
    /\ \E k \in DOMAIN Awaits(mode[c]) :
          /\ pc[c] = Awaits(mode[c])[k]
          /\ \E ok \in BOOLEAN :
                IF ~ok
                THEN /\ Fail(c, pc[c])
                     /\ page' = page
                ELSE IF k < Len(Awaits(mode[c]))
                THEN /\ pc' = [pc EXCEPT ![c] = Awaits(mode[c])[k + 1]]
                     /\ page' = page
                     /\ UNCHANGED <<mode, elements, filename, captured, last>>
                ELSE /\ page' \in {page} \cup {q \in {page + 1} : q <= NumPages}
                     /\ Respond(c, "none",
                                Success({"success"}, NoPath, NoPath, NoPath, 0, <<>>),
                                captured[c], <<>>)
    /\ UNCHANGED <<browser, now, yolo_model, sam_model, files, loads, probe,
                   pid_file, procs, cli_out, waiter>>

\* await browser.get_current_page() of /screenshot and the grounding endpoints.
PageOfCapture(c) ==
    /\ mode[c] \in Modes
    /\ GetPage(c)

\* ------------------------------------------------ the encoder on its own
\* The characters of a label: a letter, and the ones the sanitizer treats.
LabelChars == {"a", ",", "\n", " "}
Labels == UNION {[1 .. n -> LabelChars] : n \in 0 .. MaxLabel}

\* The regions handed to the encoder: box (x, y, w, h) and label; among them
\* the box (100, 50, 40, 20).
Regions ==
    [x : -MaxCoord .. MaxCoord, y : -MaxCoord .. MaxCoord,
     w : 1 .. MaxCoord, h : 1 .. MaxCoord, text : Labels]
    \cup [x : {100}, y : {50}, w : {40}, h : {20}, text : Labels]

\* A region is given; no row has been computed from it yet.
InitEncode ==
    /\ browser = "None"
    /\ page = 0
    /\ now = 0
    /\ yolo_model = NoModel
    /\ sam_model = NoModel
    /\ files = <<>>
    /\ pc = [c \in Calls |-> "idle"]
    /\ mode = [c \in Calls |-> "none"]
    /\ elements = [c \in Calls |-> <<>>]
    /\ filename = [c \in Calls |-> NoPath]
    /\ captured = [c \in Calls |-> NoCapture]
    /\ last = NoLast
    /\ loads = [yolo |-> 0, sam |-> 0]
    /\ \E r \in Regions :
          probe = [given |-> TRUE, region |-> r, rect |-> <<>>, corners |-> <<>>]
    /\ pid_file = AbsentFile
    /\ procs = <<>>
    /\ cli_out = NoCommand
    /\ waiter = NoWaiter

\* The row /visualize computes (lines 304-310) for the region as the element
\* {text, x, y, w, h}.
EncodeElement ==
    /\ probe.given /\ probe.rect = <<>>
    /\ probe' = [probe EXCEPT !.rect = VisualizeCsv(<<probe.region>>)]
    /\ UNCHANGED <<browser, page, now, yolo_model, sam_model, files, pc, mode,
                   elements, filename, captured, last, loads,
                   pid_file, procs, cli_out, waiter>>

\* The row /detect computes (lines 362-368) for the region as the detection
\* with corners x1 = x, y1 = y, x2 = x + w, y2 = y + h and its label.
EncodeDetection ==
    /\ probe.given /\ probe.corners = <<>>
    /\ LET r == probe.region
           d == [x1 |-> r.x, y1 |-> r.y, x2 |-> r.x + r.w, y2 |-> r.y + r.h,
                 conf |-> 90, label |-> r.text]
       IN  probe' = [probe EXCEPT !.corners = DetectCsv(<<d>>)]
    /\ UNCHANGED <<browser, page, now, yolo_model, sam_model, files, pc, mode,
                   elements, filename, captured, last, loads,
                   pid_file, procs, cli_out, waiter>>

\* ------------------------------------------------- cli.py: server start, stop
\* get_server_pid(), lines 21-27: the integer in PID_FILE, None when the file
\* does not exist or int() raises ValueError on its text.
get_server_pid(file) == IF file.exists THEN file.number ELSE NoPid

\* The processes are numbered from 1 in the order they were launched; procs
\* holds for each whether `start` ran it in the background and where it is:
\* running, terminating after a SIGTERM, or exited.
Alive == {p \in DOMAIN procs : procs[p].state # "exited"}

\* os.kill(pid, sig) returns instead of raising OSError: the process exists.
KillSucceeds(pid) == pid \in Alive

\* typer.echo and what the command launched.
Command(cmd, echo, launched) == [cmd |-> cmd, echo |-> echo, launched |-> launched]

\* The server has not been started: the PID file is absent, or an earlier
\* write_text that was cut short left it without a number.
InitCli ==
    /\ browser = "None"
    /\ page = 0
    /\ now = 0
    /\ yolo_model = NoModel
    /\ sam_model = NoModel
    /\ files = <<>>
    /\ pc = [c \in Calls |-> "idle"]
    /\ mode = [c \in Calls |-> "none"]
    /\ elements = [c \in Calls |-> <<>>]
    /\ filename = [c \in Calls |-> NoPath]
    /\ captured = [c \in Calls |-> NoCapture]
    /\ last = NoLast
    /\ loads = [yolo |-> 0, sam |-> 0]
    /\ probe = NoProbe
    /\ pid_file \in {AbsentFile, UnreadableFile}
    /\ procs = <<>>
    /\ cli_out = NoCommand
    /\ waiter = NoWaiter

\* `server start`, lines 29-75.  With the recorded pid alive it echoes and
\* returns.  Otherwise it unlinks the file of a dead pid, launches uvicorn,
\* and in the background case writes the child's pid to PID_FILE; in the
\* foreground case subprocess.run(cmd) waits for the child and nothing is
\* written.
Start(background) ==
    LET pid == get_server_pid(pid_file)
        child == Len(procs) + 1
    IN  IF pid # NoPid /\ KillSucceeds(pid)
        THEN /\ cli_out' = Command("start", "already running", 0)
             /\ UNCHANGED <<pid_file, procs>>
        ELSE /\ Len(procs) < MaxProcs
             /\ procs' = Append(procs, [state |-> "running", background |-> background])
             /\ pid_file' = IF background THEN PidFile(child)
                             ELSE IF pid # NoPid THEN AbsentFile
                             ELSE pid_file
             /\ cli_out' = Command("start", IF background THEN "started in background"
                                            ELSE "starting", child)

StartCommand ==
    /\ \E background \in BOOLEAN : Start(background)
    /\ UNCHANGED <<browser, page, now, yolo_model, sam_model, files, pc, mode,
                   elements, filename, captured, last, loads, probe, waiter>>

\* `server stop`, lines 77-93: SIGTERM to the recorded pid, and the PID file
\* is unlinked whether the signal was delivered or os.kill raised.  The
\* signalled server shuts down on its own time.
StopCommand ==
    /\ LET pid == get_server_pid(pid_file)
       IN  IF pid = NoPid
           THEN /\ cli_out' = Command("stop", "not running", 0)
                /\ UNCHANGED <<pid_file, procs>>
           ELSE IF KillSucceeds(pid)
           THEN /\ procs' = [procs EXCEPT ![pid].state = "terminating"]
                /\ pid_file' = AbsentFile
                /\ cli_out' = Command("stop", "stopped", 0)
           ELSE /\ procs' = procs
                /\ pid_file' = AbsentFile
                /\ cli_out' = Command("stop", "could not stop", 0)
    /\ UNCHANGED <<browser, page, now, yolo_model, sam_model, files, pc, mode,
                   elements, filename, captured, last, loads, probe, waiter>>

\* A server process ends: its shutdown after SIGTERM completes, it crashes,
\* or the foreground one is interrupted at the terminal.
ProcessExits(p) ==
    /\ p \in Alive
    /\ procs' = [procs EXCEPT ![p].state = "exited"]
    /\ UNCHANGED <<browser, page, now, yolo_model, sam_model, files, pc, mode,
                   elements, filename, captured, last, loads, probe, pid_file,
                   cli_out, waiter>>

\* ------------------------------------------------ client.py: the wait command
\* time.sleep(0.5), in quarters of a second.
SleepTime == 2

\* What one client.post(.../execute) gives: it raises (httpx.ConnectError, a
\* timeout), or a response with a status code and a body, which is no JSON,
\* or a JSON object whose "result" is missing, true, false, or a truthy value
\* that is not the boolean (1, "true").
Answers ==
    {[raises |-> TRUE, status_code |-> 0, body |-> "none"]}
    \cup [raises : {FALSE}, status_code : {200, 500, 503},
          body : {"not json", "missing", "true", "false", "truthy"}]

\* The except clause ending the command on an error, as handle_response does.
AfterPollExitOnError(answer) ==
    IF answer.raises THEN [pc |-> "exited", status |-> 1]
    ELSE IF answer.status_code # 200 THEN [pc |-> "sleep", status |-> -1]
    ELSE IF answer.body = "not json" THEN [pc |-> "exited", status |-> 1]
    ELSE IF answer.body = "true" THEN [pc |-> "returned", status |-> 0]
    ELSE [pc |-> "sleep", status |-> -1]

\* Lines 134-141: where the loop body goes with the answer of its POST.  The
\* bare except swallows what client.post or response.json() raised.
AfterPoll(answer) ==
    IF answer.raises THEN [pc |-> "sleep", status |-> -1]
    ELSE IF answer.status_code # 200 THEN [pc |-> "sleep", status |-> -1]
    ELSE IF answer.body = "not json" THEN [pc |-> "sleep", status |-> -1]
    ELSE IF answer.body = "true" THEN [pc |-> "returned", status |-> 0]
    ELSE [pc |-> "sleep", status |-> -1]

\* No wait command has run.
InitWait ==
    /\ browser = "None"
    /\ page = 0
    /\ now = 0
    /\ yolo_model = NoModel
    /\ sam_model = NoModel
    /\ files = <<>>
    /\ pc = [c \in Calls |-> "idle"]
    /\ mode = [c \in Calls |-> "none"]
    /\ elements = [c \in Calls |-> <<>>]
    /\ filename = [c \in Calls |-> NoPath]
    /\ captured = [c \in Calls |-> NoCapture]
    /\ last = NoLast
    /\ loads = [yolo |-> 0, sam |-> 0]
    /\ probe = NoProbe
    /\ pid_file = AbsentFile
    /\ procs = <<>>
    /\ cli_out = NoCommand
    /\ waiter = NoWaiter

\* `client wait SELECTOR --timeout T`, line 131: start_time = time.time().
\* polls counts the POSTs made, swallowed those the loop went on after
\* (history).
StartWait ==
    /\ waiter.pc = "none"
    /\ \E timeout \in -1 .. MaxTimeout :
          waiter' = [pc |-> "test", timeout |-> timeout, start_time |-> 0, time |-> 0,
                     polls |-> 0, swallowed |-> 0, answer |-> <<>>, status |-> -1]
    /\ UNCHANGED <<browser, page, now, yolo_model, sam_model, files, pc, mode,
                   elements, filename, captured, last, loads, probe, pid_file,
                   procs, cli_out>>

\* Line 132: while (time.time() - start_time) * 1000 < timeout; past the
\* loop, lines 143-144: the error message and sys.exit(1).
LoopTest ==
    /\ waiter.pc = "test"
    /\ waiter' = IF waiter.time - waiter.start_time < waiter.timeout
                 THEN [waiter EXCEPT !.pc = "post"]
                 ELSE [waiter EXCEPT !.pc = "exited", !.status = 1]
    /\ UNCHANGED <<browser, page, now, yolo_model, sam_model, files, pc, mode,
                   elements, filename, captured, last, loads, probe, pid_file,
                   procs, cli_out>>

\* Lines 133-140: the POST to /execute is answered, or raises, after some
\* time; on status 200 with result True the command prints and returns.
Poll ==
    /\ waiter.pc = "post"
    /\ \E answer \in Answers, took \in 0 .. MaxPollTime :
          LET after == AfterPoll(answer)
          IN  waiter' = [waiter EXCEPT !.pc = after.pc, !.status = after.status,
                                       !.time = @ + took, !.polls = @ + 1,
                                       !.swallowed = IF after.pc = "sleep" THEN @ + 1 ELSE @,
                                       !.answer = <<answer>>]
    /\ UNCHANGED <<browser, page, now, yolo_model, sam_model, files, pc, mode,
                   elements, filename, captured, last, loads, probe, pid_file,
                   procs, cli_out>>

\* Line 141: time.sleep(0.5), then back to the loop test.
Sleep ==
    /\ waiter.pc = "sleep"
    /\ waiter' = [waiter EXCEPT !.pc = "test", !.time = @ + SleepTime]
    /\ UNCHANGED <<browser, page, now, yolo_model, sam_model, files, pc, mode,
                   elements, filename, captured, last, loads, probe, pid_file,
                   procs, cli_out>>

\* ------------------------------------------------------------ the claims
\* The request that ended last, and the one response it sent.
Ended == last.call # 0
Sent == last.sent[1]
LastSucceeded == Ended /\ Len(last.sent) = 1 /\ Sent.success
LastGrounding == last.mode \in Grounding

\* The rows the code computes from the geometry of page state p as mode m
\* reads it.
RowsOfPage(m, p, usable) ==
    IF m = "visualize" THEN (IF usable THEN VisualizeCsv(ScanScript(p)) ELSE <<>>)
    ELSE IF m = "detect" THEN DetectCsv(Detections(YoloResults(p)))
    ELSE SegmentCsv(SamResults(p)[1].boxes)

\* C1: under every interleaving of grounding calls, the CSV a call returns,
\* and the CSV file it wrote, hold the coordinates computed from the page
\* geometry this call itself captured, never another call's.
C1_CsvFromOwnCapture ==
    (LastGrounding /\ LastSucceeded) =>
        LET own == RowsOfPage(last.mode, last.captured.geom, last.captured.usable)
        IN  /\ Sent.csv = own
            /\ \A n \in DOMAIN last.wrote : n[3] = "csv" => last.wrote[n].rows = own

\* C1 witness: a /visualize call is suspended at its screenshot holding the
\* geometry of one page state while a grounding call that arrived later has
\* already returned a CSV computed from another page state's geometry.
C1_Witness ==
    \E c \in Calls :
        /\ mode[c] = "visualize" /\ pc[c] = "await_screenshot"
        /\ c < last.call
        /\ last.mode = "visualize" /\ LastSucceeded
        /\ last.captured.geom # captured[c].geom
        /\ Sent.csv # <<>>
        /\ Sent.csv # VisualizeCsv(elements[c])

\* A grounding call between its first answered driver access and the end of
\* its annotate step.
InPipeline(c) == mode[c] \in Grounding /\ pc[c] \in {"await_evaluate", "await_screenshot"}

\* C2: while a grounding call is between its first driver access and the end
\* of its annotate step, no other grounding call performs an evaluate or a
\* screenshot on the shared browser.
C2_PipelineSerialized ==
    [][\A c, d \in Calls :
          (c # d /\ InPipeline(c) /\ InPipeline(d)) => pc'[d] = pc[d]]_vars

\* C3: a grounding call in which a step raised ends with exactly one
\* response, an error, which names no artifact path; it never reports success.
C3_OneErrorOnFailure ==
    (Ended /\ LastGrounding) =>
        /\ Len(last.sent) = 1
        /\ last.raised # "none" =>
              /\ ~Sent.success
              /\ Sent.code = 500
              /\ Sent.keys = {"detail"}
              /\ Sent.path = NoPath /\ Sent.csv_path = NoPath /\ Sent.image_path = NoPath

\* C3 witness: a /visualize call whose CSV write raised after its image was
\* saved has answered with an error.
C3_Witness ==
    /\ Ended /\ last.mode = "visualize" /\ last.raised = "csv_write"
    /\ \E n \in DOMAIN last.wrote : n[3] = "png" /\ last.wrote[n].complete
    /\ ~Sent.success

\* C4: when the detector raises in /detect (model load, inference, reading a
\* box), or the segmenter raises anywhere in /segment's result processing,
\* the call fails with one error and has written no image and no CSV file.
C4_DetectorRaiseWritesNothing ==
    (/\ Ended
     /\ \/ last.mode = "detect" /\ last.raised \in {"load", "infer", "read"}
        \/ last.mode = "segment" /\ last.raised \in {"load", "infer", "plot", "read"}) =>
        /\ Len(last.sent) = 1
        /\ ~Sent.success
        /\ DOMAIN last.wrote = {}

\* C5: every path of a success response names a file this call wrote
\* completely before it answered.
C5_ReturnedPathsWereWritten ==
    LastSucceeded =>
        \A n \in {Sent.path, Sent.csv_path, Sent.image_path} \ {NoPath} :
            n \in DOMAIN last.wrote /\ last.wrote[n].complete

\* C6: a /detect call in which nothing raised and whose detector found no
\* box succeeds with an empty detections list and leaves an empty CSV file,
\* whose path the response carries as csv_path.
C6_EmptyDetectLeavesCsv ==
    (/\ Ended /\ last.mode = "detect" /\ last.raised = "none"
     /\ last.captured.geom >= 0
     /\ Detections(YoloResults(last.captured.geom)) = <<>>) =>
        /\ Sent.success /\ Sent.count = 0 /\ Sent.csv = <<>>
        /\ "csv_path" \in Sent.keys
        /\ Sent.csv_path \in DOMAIN files
        /\ Sent.csv_path \in DOMAIN last.wrote
        /\ last.wrote[Sent.csv_path].rows = <<>>

\* C7: a grounding call whose geometry source answered with something
\* unusable (a string that is no JSON, a value that is no list) returns an
\* error, never a success.
C7_UnusableGeometryIsAnError ==
    (Ended /\ LastGrounding /\ ~last.captured.usable) => ~Sent.success

\* C8: in every successful grounding call, for each CSV row the numeric id of
\* the row is drawn on the image at a box whose centre is the row's centre.
C8_IdDrawnAtCsvCentre ==
    (LastGrounding /\ LastSucceeded) =>
        LET image == IF last.mode = "visualize" THEN Sent.path ELSE Sent.image_path
            marks == last.wrote[image].marks
        IN  \A i \in 1 .. Len(Sent.csv) :
                \E k \in 1 .. Len(marks) :
                    /\ marks[k].text = IdText(Sent.csv[i].id)
                    /\ CenterOfCorners(marks[k].box[1], marks[k].box[3]) = Sent.csv[i].cx
                    /\ CenterOfCorners(marks[k].box[2], marks[k].box[4]) = Sent.csv[i].cy

\* The number of boxes in a list of result objects.
RECURSIVE NumBoxes(_)
NumBoxes(results) ==
    IF results = <<>> THEN 0 ELSE Len(Head(results)) + NumBoxes(Tail(results))

\* The number of regions the geometry source of mode m returned on page state p.
RegionCount(m, p, usable) ==
    IF m = "visualize" THEN (IF usable THEN Len(ScanScript(p)) ELSE 0)
    ELSE IF m = "detect" THEN NumBoxes(YoloResults(p))
    ELSE Len(SamResults(p)[1].boxes)

\* C9: the CSV of a successful grounding call has one row per region the
\* geometry source returned, and row i (from 0, in the order returned)
\* carries id i.
C9_IdsContiguous ==
    (LastGrounding /\ LastSucceeded) =>
        /\ Len(Sent.csv) =
              RegionCount(last.mode, last.captured.geom, last.captured.usable)
        /\ \A i \in 1 .. Len(Sent.csv) : Sent.csv[i].id = i - 1

\* C9 witness: a /detect call whose detector returned several result objects
\* has returned its CSV.
C9_Witness ==
    /\ LastSucceeded /\ last.mode = "detect"
    /\ Len(YoloResults(last.captured.geom)) > 1
    /\ Len(Sent.csv) > 1

\* C10: every centre in the CSV of a successful grounding call lies inside
\* the frame: 0 <= center_x < width and 0 <= center_y < height.
C10_CentresInsideFrame ==
    (LastGrounding /\ LastSucceeded) =>
        \A i \in 1 .. Len(Sent.csv) :
            /\ 0 <= Sent.csv[i].cx /\ Sent.csv[i].cx < ViewportW
            /\ 0 <= Sent.csv[i].cy /\ Sent.csv[i].cy < ViewportH

\* c is twice-v-halved truncated toward zero: the integer nearest to v / 2
\* that is not farther from zero.
IsHalfTruncated(v, c) ==
    IF v >= 0 THEN 2 * c <= v /\ v < 2 * c + 2
    ELSE v <= 2 * c /\ 2 * c - 2 < v

\* C11: the encoder gives center_x = x + w/2 and center_y = y + h/2 truncated
\* toward zero, (120, 60) for the box (100, 50, 40, 20), and the corner form
\* of /detect and /segment gives the same centre as the form of /visualize.
C11_CentreTruncated ==
    probe.given =>
        LET r == probe.region
        IN  /\ \A row \in {probe.rect[i] : i \in DOMAIN probe.rect}
                       \cup {probe.corners[i] : i \in DOMAIN probe.corners} :
                   /\ IsHalfTruncated(2 * r.x + r.w, row.cx)
                   /\ IsHalfTruncated(2 * r.y + r.h, row.cy)
                   /\ <<r.x, r.y, r.w, r.h>> = <<100, 50, 40, 20>> =>
                          <<row.cx, row.cy>> = <<120, 60>>
            /\ (probe.rect # <<>> /\ probe.corners # <<>>) =>
                   /\ probe.rect[1].cx = probe.corners[1].cx
                   /\ probe.rect[1].cy = probe.corners[1].cy

\* C11 witness: both forms have been applied to a box whose x + w/2 is
\* negative and not an integer.
C11_Witness ==
    /\ probe.given
    /\ probe.rect # <<>> /\ probe.corners # <<>>
    /\ 2 * probe.region.x + probe.region.w < 0
    /\ (2 * probe.region.x + probe.region.w) % 2 = 1

\* The label of a row is clean: no comma and no newline in it, so that the
\* row is one line of four comma-separated fields, and no whitespace at
\* either end.
CleanLabel(label) ==
    /\ \A i \in DOMAIN label : label[i] # "," /\ label[i] # "\n"
    /\ label # <<>> => (label[1] \notin Whitespace /\ label[Len(label)] \notin Whitespace)

\* C12: in every CSV row of every mode the label holds no comma and no
\* newline and has no whitespace at either end.
C12_LabelsSanitized ==
    probe.given =>
        /\ \A i \in DOMAIN probe.rect : CleanLabel(probe.rect[i].label)
        /\ \A i \in DOMAIN probe.corners : CleanLabel(probe.corners[i].label)

\* The artifact paths a response carries.
PathsOf(response) ==
    {response.path, response.csv_path, response.image_path} \ {NoPath}

\* C13: artifacts are written once: the call that ends next after a
\* successful grounding call neither writes a file that call's response
\* names nor, when it succeeds, returns one of its paths.
C13_ArtifactsWrittenOnce ==
    [][(LastGrounding /\ LastSucceeded /\ last'.call # last.call) =>
          \A n \in PathsOf(Sent) :
              /\ n \notin DOMAIN last'.wrote
              /\ n \notin PathsOf(last'.sent[1])]_vars

\* The call that ended last ran get_yolo() / get_sam() and it returned.
LastUsedModel ==
    /\ Ended /\ last.mode \in {"detect", "segment"}
    /\ last.captured.frame >= 0
    /\ last.raised \notin {"decode", "load"}

C15_LazyCachedIndependent ==
    [][/\ yolo_model' # yolo_model =>
             /\ yolo_model = NoModel /\ sam_model' = sam_model
             /\ last'.mode = "detect" /\ last'.captured.frame >= 0
             /\ last'.raised \notin {"decode", "load"}
       /\ sam_model' # sam_model =>
             /\ sam_model = NoModel /\ yolo_model' = yolo_model
             /\ last'.mode = "segment" /\ last'.captured.frame >= 0
             /\ last'.raised \notin {"decode", "load"}
       /\ loads'.yolo # loads.yolo => yolo_model = NoModel
       /\ loads'.sam # loads.sam => sam_model = NoModel]_vars

\* C15 witness: both models are loaded, and the call that ended last failed
\* after its model was loaded.
C15_Witness ==
    /\ yolo_model # NoModel /\ sam_model # NoModel
    /\ LastUsedModel /\ last.raised # "none"

\* C16: while a /detect or /segment call is in model loading or inference,
\* the handler of a waiting / or /status request can take its next step: the
\* event loop is free to serve it.
C16_StatusServedDuringInference ==
    \A c, s \in Calls :
        (/\ pc[c] = "inferring"
         /\ mode[s] \in {"status", "root"}
         /\ pc[s] \in {"received", "await_page", "await_url", "await_title"}) =>
            ENABLED ServeStep(s)

\* C17: in every grounding call the frame is captured before the geometry
\* is computed, no file is written before encode has completed, and a call
\* that returns success has persisted both its image and its CSV file.
C17_StagesInOrder ==
    /\ \A c \in Calls :
           (mode[c] \in Grounding /\ captured[c].geom >= 0) => captured[c].frame >= 0
    /\ (Ended /\ LastGrounding /\ last.raised \in {"encode", "read"}) =>
           DOMAIN last.wrote = {}
    /\ (LastGrounding /\ LastSucceeded) =>
           /\ \E n \in DOMAIN last.wrote : n[3] = "png" /\ last.wrote[n].complete
           /\ \E n \in DOMAIN last.wrote : n[3] = "csv" /\ last.wrote[n].complete

\* C18: a /visualize call whose region list has an item with a missing,
\* non-numeric or non-finite coordinate fails with an error and writes no
\* CSV file, complete or partial; and a call writes to a CSV file only after
\* every step before the write, encode included, has completed.
C18_MalformedRegionNoCsv ==
    /\ (Ended /\ last.mode = "visualize" /\ ~last.captured.wellformed) =>
           /\ Len(last.sent) = 1 /\ ~Sent.success
           /\ \A n \in DOMAIN last.wrote : n[3] # "csv"
    /\ (Ended /\ \E n \in DOMAIN last.wrote : n[3] = "csv") =>
           last.raised \in {"none", "csv_write"}

\* C18 witness: a /visualize call whose list held a non-finite coordinate
\* drew and saved its image, raised while encoding, and answered with an error.
C18_Witness ==
    /\ Ended /\ last.mode = "visualize" /\ ~last.captured.wellformed
    /\ last.raised = "encode"
    /\ \E n \in DOMAIN last.wrote : n[3] = "png"
    /\ ~Sent.success

\* C19: while the browser is not initialized, a request to any endpoint
\* that needs the driver ends in the step it arrives in, with one 503 error:
\* it reaches no await on the driver, loads no model, writes no file, and
\* leaves the browser, the page, the models and the files as they were.
C19_NotReadyFailsClean ==
    [][\A c \in Calls :
          (browser = "None" /\ pc'[c] # pc[c]) =>
              /\ pc'[c] = "done" /\ mode'[c] = "none"
              /\ last'.call = c /\ last'.mode \in Endpoints
              /\ Len(last'.sent) = 1
              /\ last'.sent[1] = HttpError(503, "Browser not initialized")
              /\ last'.captured = NoCapture /\ last'.wrote = <<>>
              /\ UNCHANGED <<browser, page, yolo_model, sam_model, loads, files,
                             elements, filename, captured>>]_vars

\* C19 witness: a /fill request that arrived before the browser was
\* initialized has been answered 503, and nothing was loaded or written.
C19_Witness ==
    /\ browser = "None"
    /\ Ended /\ last.mode = "fill"
    /\ Sent.code = 503
    /\ files = <<>> /\ yolo_model = NoModel /\ sam_model = NoModel

C21_CountMatchesRows ==
    (LastGrounding /\ LastSucceeded) => Sent.count = Len(Sent.csv)

\* C22: within one /visualize call the DOM geometry and the screenshot it is
\* drawn onto show the same page state, also when /navigate, /click,
\* /click_at, /fill or /execute is handled concurrently: no such request's
\* driver call takes effect between the call's evaluate and its screenshot.
C22_GeometryAndFrameAgree ==
    /\ (Ended /\ last.mode = "visualize" /\ last.captured.frame >= 0) =>
           last.captured.geom = last.captured.frame
    /\ \A c \in Calls :
           (mode[c] = "visualize" /\ pc[c] = "await_screenshot") =>
               captured[c].geom = page

\* The call that ended last got as far as get_yolo() / get_sam().
LastReachedLoad ==
    /\ Ended /\ last.mode \in {"detect", "segment"}
    /\ last.captured.frame >= 0
    /\ last.raised # "decode"

\* C23: a model load that raises does not poison the cache: the call fails
\* with an error and the global stays unset; the next call of that mode that
\* reaches the getter runs the constructor again, failing again or leaving
\* the model it built in the global; and a global that holds a model keeps it.
C23_FailedLoadNotCached ==
    [][/\ (last'.call # last.call /\ last'.raised = "load") =>
             /\ Len(last'.sent) = 1 /\ ~last'.sent[1].success
             /\ last'.sent[1].code = 500
             /\ last'.mode = "detect" => (yolo_model' = NoModel /\ loads'.yolo = loads.yolo)
             /\ last'.mode = "segment" => (sam_model' = NoModel /\ loads'.sam = loads.sam)
       /\ (last'.call # last.call /\ LastReachedLoad' /\ last'.mode = "detect"
            /\ yolo_model = NoModel) =>
             \/ last'.raised = "load"
             \/ loads'.yolo = loads.yolo + 1 /\ yolo_model' = loads'.yolo
       /\ (last'.call # last.call /\ LastReachedLoad' /\ last'.mode = "segment"
            /\ sam_model = NoModel) =>
             \/ last'.raised = "load"
             \/ loads'.sam = loads.sam + 1 /\ sam_model' = loads'.sam
       /\ yolo_model # NoModel => yolo_model' = yolo_model
       /\ sam_model # NoModel => sam_model' = sam_model]_vars

\* C23 witness: a /detect call failed in the model load, the global is still
\* unset, and another /detect call waits for its screenshot, the getter ahead
\* of it.
C23_Witness ==
    /\ Ended /\ last.mode = "detect" /\ last.raised = "load"
    /\ ~Sent.success
    /\ yolo_model = NoModel /\ loads.yolo = 0
    /\ \E c \in Calls : mode[c] = "detect" /\ pc[c] = "await_screenshot"

\* A `start` command ran in this step and launched a process.
Launches == Len(procs') > Len(procs)

\* C24: after any sequence of `server start` (background or foreground) and
\* `server stop` commands at most one server process started through the CLI
\* is alive; `start` launches only when the PID file is absent, unreadable or
\* names a dead process, whose file it removes first; and with the recorded
\* pid alive it launches nothing and changes nothing.
C24_SingleServerProcess ==
    [][/\ Cardinality(Alive') <= 1
       /\ Launches =>
             /\ get_server_pid(pid_file) = NoPid \/ ~KillSucceeds(get_server_pid(pid_file))
             /\ get_server_pid(pid_file) # NoPid => pid_file' # pid_file
       /\ (get_server_pid(pid_file) # NoPid /\ KillSucceeds(get_server_pid(pid_file))
            /\ cli_out' # cli_out /\ cli_out'.cmd = "start") =>
             UNCHANGED <<pid_file, procs>>]_vars

WaitEnded == waiter.pc \in {"returned", "exited"}

\* The POST was answered HTTP 200 with a JSON body whose result is true.
AnsweredTrue(answer) ==
    ~answer.raises /\ answer.status_code = 200 /\ answer.body = "true"

\* C25: the wait command always terminates; it returns success as soon as
\* one poll is answered HTTP 200 with result exactly true; a poll that raised
\* or was answered otherwise never ends the loop, which goes on to its sleep;
\* and it exits with status 1 only once the timeout has elapsed with no poll
\* answered so.
C25_WaitTerminates ==
    /\ (waiter.pc # "none") ~> WaitEnded
    /\ [][/\ (waiter.pc = "post" /\ waiter' # waiter) =>
                /\ waiter'.polls = waiter.polls + 1
                /\ IF AnsweredTrue(waiter'.answer[1])
                   THEN waiter'.pc = "returned" /\ waiter'.status = 0
                   ELSE waiter'.pc = "sleep" /\ waiter'.status = -1
          /\ (waiter.pc # "none" /\ waiter'.pc = "returned" /\ waiter.pc # "returned") =>
                waiter.pc = "post"
          /\ (waiter.pc # "none" /\ waiter'.pc = "exited" /\ waiter.pc # "exited") =>
                /\ waiter'.status = 1
                /\ waiter'.time - waiter'.start_time >= waiter'.timeout
                /\ waiter'.swallowed = waiter'.polls
          /\ (waiter.pc # "none" /\ WaitEnded) => waiter' = waiter]_vars

\* C25 witness: the command has exited with status 1 after several polls,
\* of which the last one raised and was swallowed.
C25_Witness ==
    /\ waiter.pc = "exited" /\ waiter.status = 1
    /\ waiter.polls >= 2
    /\ waiter.answer[1].raises

Next ==
    \/ Startup
    \/ Tick
    \/ PageChanges
    \/ \E c \in Calls, m \in Modes : Arrive(c, m)
    \/ \E c \in Calls : Navigate(c)
    \/ \E c \in Calls : GetPage(c)
    \/ \E c \in Calls : Evaluate(c)
    \/ \E c \in Calls : EvaluateMalformed(c)
    \/ \E c \in Calls : ScreenshotFinish(c)
    \/ \E c \in Calls : VisualizeFinish(c)
    \/ \E c \in Calls : DetectFinish(c)
    \/ \E c \in Calls : SegmentFinish(c)

Spec == Init /\ [][Next]_vars

\* The grounding endpoints alone, within one second of the clock and with
\* evaluate answers that carry the numbers of the script.  The other
\* endpoints reach a grounding call only through the page state, which
\* PageChanges moves as /navigate does, and through screenshot_* files, which
\* no grounding call reads or names.  The clock only picks the timestamp in an
\* artifact's name; what a call reads, computes, answers and writes into its
\* own files does not depend on it.
NextGrounding ==
    \/ Startup
    \/ PageChanges
    \/ \E c \in Calls, m \in Grounding : Arrive(c, m)
    \/ \E c \in Calls : GetPage(c)
    \/ \E c \in Calls : Evaluate(c)
    \/ \E c \in Calls : VisualizeFinish(c)
    \/ \E c \in Calls : DetectFinish(c)
    \/ \E c \in Calls : SegmentFinish(c)

SpecGrounding == Init /\ [][NextGrounding]_vars

\* /detect and /segment alone, the endpoints that load a model, within one
\* second of the clock.
NextModels ==
    \/ Startup
    \/ PageChanges
    \/ \E c \in Calls, m \in {"detect", "segment"} : Arrive(c, m)
    \/ \E c \in Calls : GetPage(c)
    \/ \E c \in Calls : DetectFinish(c)
    \/ \E c \in Calls : SegmentFinish(c)

SpecModels == Init /\ [][NextModels]_vars

\* /visualize alone, within one second of the clock, with every answer
\* page.evaluate can give.
NextVisualize ==
    \/ Startup
    \/ PageChanges
    \/ \E c \in Calls : Arrive(c, "visualize")
    \/ \E c \in Calls : GetPage(c)
    \/ \E c \in Calls : Evaluate(c)
    \/ \E c \in Calls : EvaluateMalformed(c)
    \/ \E c \in Calls : VisualizeFinish(c)

SpecVisualize == Init /\ [][NextVisualize]_vars

\* Every endpoint that uses the driver, within one second of the clock and
\* with the page changed by the requests alone.
NextEndpoints ==
    \/ Startup
    \/ \E c \in Calls, m \in Endpoints : Arrive(c, m)
    \/ \E c \in Calls : Navigate(c)
    \/ \E c \in Calls : StatusStep(c)
    \/ \E c \in Calls : ControlStep(c)
    \/ \E c \in Calls : PageOfCapture(c)
    \/ \E c \in Calls : Evaluate(c)
    \/ \E c \in Calls : EvaluateMalformed(c)
    \/ \E c \in Calls : ScreenshotFinish(c)
    \/ \E c \in Calls : VisualizeFinish(c)
    \/ \E c \in Calls : DetectFinish(c)
    \/ \E c \in Calls : SegmentFinish(c)

SpecEndpoints == Init /\ [][NextEndpoints]_vars

\* /detect, /segment, /status and / on the one event loop.
NextBlocking ==
    \/ Startup
    \/ Tick
    \/ \E c \in Calls, m \in Served : Receive(c, m)
    \/ \E c \in Calls : Dispatch(c)
    \/ \E c \in Calls : StatusStep(c)
    \/ \E c \in Calls : PageOfInference(c)
    \/ \E c \in Calls : Infer(c)
    \/ \E c \in Calls : FinishInference(c)

SpecBlocking == Init /\ [][NextBlocking]_vars

\* The CLI's server commands and the processes they launch.
NextCli ==
    \/ StartCommand
    \/ StopCommand
    \/ \E p \in 1 .. MaxProcs : ProcessExits(p)

SpecCli == InitCli /\ [][NextCli]_vars

\* The wait command of the client on its own.  The client process keeps
\* running: the loop test and the sleep return, and so does every POST,
\* which httpx ends with an exception when no answer comes.
NextWait ==
    \/ StartWait
    \/ LoopTest
    \/ Poll
    \/ Sleep

SpecWait ==
    /\ InitWait /\ [][NextWait]_vars
    /\ WF_vars(LoopTest) /\ WF_vars(Poll) /\ WF_vars(Sleep)

\* The encoder applied to one region.
NextEncode ==
    \/ EncodeElement
    \/ EncodeDetection

SpecEncode == InitEncode /\ [][NextEncode]_vars
====
